---- MODULE Spec2Model ----
(***************************************************************************)
(* Deliberation engine of MedicalDiagnosisSystem                           *)
(* (src/medical_diagnosis_system.py): specialist selection, circular group *)
(* formation, the round loop with its five-stage debate cycle, stagnation  *)
(* detection and intervention, and the final presentation.                 *)
(*                                                                         *)
(* Text is modelled as a sequence of symbols.  A diagnosis label is one    *)
(* symbol (a number, so that Python's sorted() has an order to follow), a  *)
(* referee judgment is a sequence of syllable groups, a voice id           *)
(* f"{a}+{b}" is the pair <<a, b>>.                                        *)
(***************************************************************************)
EXTENDS Integers, Sequences, FiniteSets, TLC

VARIABLES
    pc,                    \* position in _start_diagnosis_debate / _conduct_debate
    selected_specialists,  \* self.selected_specialists
    specialist_groups,     \* self.specialist_groups
    current_round,         \* self.current_round
    max_rounds,            \* self.max_rounds
    stagnation_threshold,  \* self.stagnation_threshold
    last_opinions,         \* self.last_opinions (signature history)
    stagnation_count,      \* self.stagnation_count
    active_opinions,       \* self.active_opinions
    opinions,              \* local `opinions` of _run_debate_cycle (Stage 1)
    rebuttals,             \* local `rebuttals` of _run_debate_cycle (Stages 3-4)
    judgment,              \* local `judgment` of _final_judgment (Stage 5 text)
    consensus_reached,     \* local `consensus_reached` of _conduct_debate
    cycles,                \* number of _run_debate_cycle calls started
    oracle_calls,          \* number of _call_claude calls issued
    exit_reason,           \* which exit of the while loop was taken
    result,                \* what _present_diagnosis printed
    probe_sigs,            \* detector harness: signature seen by each check
    probe_ret,             \* detector harness: return value of the last check
    response_text,         \* parser harness: argument `response` of _parse_opinion_response
    fields,                \* parser harness: the values the response was written from
    parsed                 \* parser harness: what _parse_opinion_response returned

vars == <<pc, selected_specialists, specialist_groups, current_round, max_rounds,
          stagnation_threshold, last_opinions, stagnation_count, active_opinions,
          opinions, rebuttals, judgment, consensus_reached, cycles, oracle_calls,
          exit_reason, result, probe_sigs, probe_ret, response_text,
          fields, parsed>>

parser_vars == <<response_text, fields, parsed>>

-----------------------------------------------------------------------------
(* Bounds of the model *)

MaxRounds == 4
MaxThreshold == 2
NumLabels == 2
MaxSeed == 3
MaxChecks == 4
MaxText == 4

(* Program constants *)

DiagnosisUnknown == 90
ThirdPerspective == 91
Separator == 0

Roles == {"A", "B", "C"}

Labels == 1..NumLabels

(* The labels a parsed Stage-1 opinion can carry: a label read from the
   response, or the parser's default when the labelled line is absent. *)
ParsedLabels == Labels \cup {DiagnosisUnknown}

IndependentSpecialist == <<"independent">>

SeqsUpTo(S, n) == UNION {[1..k -> S] : k \in 0..n}

Opinion(spec, diag) == [specialist |-> spec, diagnosis |-> diag]

-----------------------------------------------------------------------------
(* Referee judgment texts.  "h" stands for the text "hap-ui " (consensus),
   "d" for "do-dal" (reached), "m" for "mi" (not), "x" for any other text:
   the marker searched for is h d, and "consensus not reached" is h m d. *)

ConsensusMarker == <<"h", "d">>

Judgments ==
    { <<"h", "d">>, <<"x", "h", "d", "x">>, <<"h", "m", "d">>, <<"d", "h">> }

\* Python's `marker in text` on strings: some slice of text equals marker.
Contains(marker, text) ==
    \E i \in 1..(Len(text) - Len(marker) + 1) :
        SubSeq(text, i, i + Len(marker) - 1) = marker

-----------------------------------------------------------------------------
(* Oracle responses, as far as the engine reads them *)

\* A specialist-selection response: whether re.search(r'\[([^\]]+)\]') finds
\* a bracketed list, and the items of that list after split(',') and strip.
\* The lists tried: every ordering of every non-empty set of roles, and two
\* lists that name a role twice.
SelectionLists ==
    {s \in SeqsUpTo(Roles, Cardinality(Roles)) :
        /\ s # <<>>
        /\ \A i, j \in 1..Len(s) : i # j => s[i] # s[j]}
    \cup {<<"A", "A">>, <<"A", "B", "A">>}

SelectionResponses ==
    {[has_list |-> FALSE, items |-> <<>>]} \cup
    {[has_list |-> TRUE, items |-> s] : s \in SelectionLists}

\* A Stage-1 response: whether it holds the labelled diagnosis line, and the
\* label on that line.
Stage1Responses ==
    {[has_diag |-> TRUE, diag |-> l] : l \in Labels} \cup
    {[has_diag |-> FALSE]}

\* _parse_opinion_response: the default label unless the labelled line matches.
ParseOpinionResponse(specialist, response) ==
    Opinion(specialist,
            IF response.has_diag THEN response.diag ELSE DiagnosisUnknown)

\* Variant: the two specialists of the voice id in the other order.
VoiceSwapped(group) == <<group[2], group[1]>>

\* f"{spec_a}+{spec_b}"
Voice(group) == <<group[1], group[2]>>

-----------------------------------------------------------------------------
(* _select_specialists (the parse of the response) *)

ParseSelection(current, response) ==
    IF response.has_list THEN response.items ELSE current

(* _form_circular_groups: raised is the IndexError of selected_specialists[0]
   on an empty selection. *)

\* Variant: the successor without the wrap-around of the modulo.
RingPartnerNoWrap(i, n) == IF i = n THEN n ELSE i + 1

\* (i + 1) % len(selected_specialists), on indices from 1
RingPartner(i, n) == (i % n) + 1

CircularRing(selected) ==
    [i \in 1..Len(selected) |->
        <<selected[i], selected[RingPartner(i, Len(selected))]>>]

FormGroups(groups, selected) ==
    IF Len(selected) < 2
    THEN IF Len(selected) = 0
         THEN [raised |-> TRUE, groups |-> groups]
         ELSE [raised |-> FALSE, groups |-> << <<selected[1], selected[1]>> >>]
    ELSE [raised |-> FALSE, groups |-> groups \o CircularRing(selected)]

-----------------------------------------------------------------------------
(* _check_stagnation *)

Diagnoses(ops) == [i \in 1..Len(ops) |-> ops[i].diagnosis]

DistinctLabels(ops) == {ops[i].diagnosis : i \in 1..Len(ops)}

\* "|".join(labels)
Join(labels) ==
    IF Len(labels) = 0 THEN <<>>
    ELSE [i \in 1..(2 * Len(labels) - 1) |->
            IF i % 2 = 1 THEN labels[(i + 1) \div 2] ELSE Separator]

\* "|".join(sorted([op.diagnosis for op in self.active_opinions]))
OpinionsSignature(ops) ==
    Join(SortSeq(Diagnoses(ops), LAMBDA a, b : a < b))

CountOnRepeat(count) == count + 1

\* Variant: the counter is not reset when the signature changes.
CountOnChangeKept(count) == count

CountOnChange(count) == 0

StagnationSignal(count, threshold) == count >= threshold

\* Variant: the signature is appended to the history at every check.
CheckStagnationAlwaysAppending(ops, history, count, threshold) ==
    IF Len(ops) = 0
    THEN [ret |-> FALSE, last_opinions |-> history, stagnation_count |-> count]
    ELSE IF history = <<>>
    THEN [ret |-> FALSE, last_opinions |-> <<OpinionsSignature(ops)>>,
          stagnation_count |-> count]
    ELSE IF OpinionsSignature(ops) = history[Len(history)]
    THEN [ret |-> StagnationSignal(CountOnRepeat(count), threshold),
          last_opinions |-> Append(history, OpinionsSignature(ops)),
          stagnation_count |-> CountOnRepeat(count)]
    ELSE [ret |-> StagnationSignal(CountOnChange(count), threshold),
          last_opinions |-> Append(history, OpinionsSignature(ops)),
          stagnation_count |-> CountOnChange(count)]

\* Variant: without the early return on an empty opinion list.
CheckStagnationOnEmptyToo(ops, history, count, threshold) ==
    IF history = <<>>
    THEN [ret |-> FALSE, last_opinions |-> <<OpinionsSignature(ops)>>,
          stagnation_count |-> count]
    ELSE IF OpinionsSignature(ops) = history[Len(history)]
    THEN [ret |-> StagnationSignal(CountOnRepeat(count), threshold),
          last_opinions |-> history,
          stagnation_count |-> CountOnRepeat(count)]
    ELSE [ret |-> StagnationSignal(CountOnChange(count), threshold),
          last_opinions |-> Append(history, OpinionsSignature(ops)),
          stagnation_count |-> CountOnChange(count)]

CheckStagnation(ops, history, count, threshold) ==
    IF Len(ops) = 0
    THEN [ret |-> FALSE, last_opinions |-> history, stagnation_count |-> count]
    ELSE IF history = <<>>
    THEN [ret |-> FALSE, last_opinions |-> <<OpinionsSignature(ops)>>,
          stagnation_count |-> count]
    ELSE IF OpinionsSignature(ops) = history[Len(history)]
    THEN [ret |-> StagnationSignal(CountOnRepeat(count), threshold),
          last_opinions |-> history,
          stagnation_count |-> CountOnRepeat(count)]
    ELSE [ret |-> StagnationSignal(CountOnChange(count), threshold),
          last_opinions |-> Append(history, OpinionsSignature(ops)),
          stagnation_count |-> CountOnChange(count)]

-----------------------------------------------------------------------------
(* _handle_stagnation and _inject_third_perspective.  ok: whether the oracle
   call of the injection returns; raised: the exception _call_claude re-raises. *)

\* Variant: the injection forgets to reset the stagnation counter.
InjectThirdPerspectiveNoReset(ops, count, ok) ==
    IF ok
    THEN [raised |-> FALSE, calls |-> 1,
          active_opinions |-> Append(ops, Opinion(IndependentSpecialist, ThirdPerspective)),
          stagnation_count |-> count]
    ELSE [raised |-> TRUE, calls |-> 1,
          active_opinions |-> ops, stagnation_count |-> count]

InjectThirdPerspective(ops, count, ok) ==
    IF ok
    THEN [raised |-> FALSE, calls |-> 1,
          active_opinions |-> Append(ops, Opinion(IndependentSpecialist, ThirdPerspective)),
          stagnation_count |-> 0]
    ELSE [raised |-> TRUE, calls |-> 1,
          active_opinions |-> ops, stagnation_count |-> count]

\* Variant: the forced termination leaves the round counter alone.
ForcedRoundStays(round, limit) == round

\* self.current_round = self.max_rounds
ForcedRound(round, limit) == limit

\* Variant: a single remaining label is treated like two and ends the debate.
HandleStagnationOneLabelEnds(ops, round, limit, count, ok) ==
    IF Cardinality(DistinctLabels(ops)) <= 2
    THEN [raised |-> FALSE, calls |-> 0, current_round |-> ForcedRound(round, limit),
          active_opinions |-> ops, stagnation_count |-> count]
    ELSE [current_round |-> round] @@ InjectThirdPerspective(ops, count, ok)

HandleStagnation(ops, round, limit, count, ok) ==
    IF Cardinality(DistinctLabels(ops)) = 2
    THEN [raised |-> FALSE, calls |-> 0, current_round |-> ForcedRound(round, limit),
          active_opinions |-> ops, stagnation_count |-> count]
    ELSE IF Cardinality(DistinctLabels(ops)) >= 3
    THEN [current_round |-> round] @@ InjectThirdPerspective(ops, count, ok)
    ELSE [raised |-> FALSE, calls |-> 0, current_round |-> round,
          active_opinions |-> ops, stagnation_count |-> count]

\* Variant: the test after the intervention never ends the loop.
ShouldTerminateNever(round, limit) == FALSE

\* _should_terminate
ShouldTerminate(round, limit) == round >= limit

-----------------------------------------------------------------------------
(* The stages of _run_debate_cycle *)

\* _cross_debate: the opinions that get a rebuttal call, in order: those for
\* which some opinion of another voice exists.
\* Variant: the other opinions are told apart by diagnosis, not by voice.
OtherOpinionsByDiagnosis(ops, i) ==
    SelectSeq(ops, LAMBDA op : op.diagnosis # ops[i].diagnosis)

OtherOpinions(ops, i) ==
    SelectSeq(ops, LAMBDA op : op.specialist # ops[i].specialist)

Rebutted(ops) ==
    SelectSeq([i \in 1..Len(ops) |-> i], LAMBDA i : OtherOpinions(ops, i) # <<>>)

\* Variant: the marker is looked for at the start of the judgment only.
ConsensusAtStart(text) ==
    /\ Len(text) >= Len(ConsensusMarker)
    /\ SubSeq(text, 1, Len(ConsensusMarker)) = ConsensusMarker

\* consensus = "<marker>" in judgment
ConsensusIn(text) == Contains(ConsensusMarker, text)

\* Variant: the verdict hands back the opinions of Stage 1.
FinalOpinionsOfStageOne(active, stage1) == stage1

\* return consensus, self.active_opinions
FinalOpinions(active, stage1) == active

-----------------------------------------------------------------------------
(* _present_diagnosis *)

\* Variant: with several opinions left, only the first one is presented.
PresentDiagnosisFirstOnly(ops) ==
    IF Len(ops) = 0 THEN [kind |-> "none", opinions |-> <<>>]
    ELSE [kind |-> "single", opinions |-> <<ops[1]>>]

PresentDiagnosis(ops) ==
    IF Len(ops) = 0 THEN [kind |-> "none", opinions |-> <<>>]
    ELSE IF Len(ops) = 1 THEN [kind |-> "single", opinions |-> <<ops[1]>>]
    ELSE [kind |-> "parallel", opinions |-> ops]

NoResult == [kind |-> "pending", opinions |-> <<>>]

-----------------------------------------------------------------------------
(* _parse_opinion_response on text.  A response is a sequence of characters:
   "D", "C" and "R" stand for the three field labels of the Stage-1 prompt
   (the diagnosis, confidence and reasoning labels, each with its colon),
   "s" for a blank, "n" for a line break, "0" and "1" for digits, "." for a
   dot and "a" for any other character. *)

DiagnosisLabel == "D"

ConfidenceLabel == "C"

ReasoningLabel == "R"

Newline == "n"

Whitespace == {"s", Newline}

Digits == {"0", "1"}

DigitsAndDot == Digits \cup {"."}

Chars == {DiagnosisLabel, ConfidenceLabel, ReasoningLabel, "a"}
            \cup Whitespace \cup DigitsAndDot

\* What '.' matches without re.DOTALL, and with it.
NotNewline == Chars \ {Newline}

AnyChar == Chars

Texts == SeqsUpTo(Chars, MaxText)

MinOf(S) == CHOOSE x \in S : \A y \in S : x <= y

MaxOf(S) == CHOOSE x \in S : \A y \in S : x >= y

\* The last index of the longest run of characters of class that starts at p
\* (p - 1 when there is none).
RunEnd(text, p, class) ==
    CHOOSE q \in (p - 1)..Len(text) :
        /\ \A j \in p..q : text[j] \in class
        /\ q < Len(text) => text[q + 1] \notin class

\* The pattern <label>\s*(<class>+) tried at index i: the places where the
\* group can start, once \s* has taken some of the whitespace after the label.
GroupStarts(text, i, class) ==
    {p \in (i + 1)..(RunEnd(text, i + 1, Whitespace) + 1) :
        p <= Len(text) /\ text[p] \in class}

\* re.search(<label>\s*(<class>+), text): the leftmost index where the
\* pattern matches; there \s* is greedy and gives back only as much as the
\* group needs to start, and the group is greedy.
Search(text, label, class) ==
    LET at == {i \in 1..Len(text) :
                  text[i] = label /\ GroupStarts(text, i, class) # {}}
    IN  IF at = {}
        THEN [found |-> FALSE, group |-> <<>>]
        ELSE LET p == MaxOf(GroupStarts(text, MinOf(at), class))
             IN  [found |-> TRUE, group |-> SubSeq(text, p, RunEnd(text, p, class))]

\* str.strip()
Strip(text) ==
    LET solid == {j \in 1..Len(text) : text[j] \notin Whitespace}
    IN  IF solid = {} THEN <<>> ELSE SubSeq(text, MinOf(solid), MaxOf(solid))

\* float(text) on a text of digits and dots raises ValueError unless the text
\* has a digit and at most one dot.
ValidFloat(text) ==
    /\ \E j \in 1..Len(text) : text[j] \in Digits
    /\ Cardinality({j \in 1..Len(text) : text[j] = "."}) <= 1

DigitValue(c) == IF c = "1" THEN 1 ELSE 0

RECURSIVE DigitsValue(_)
DigitsValue(text) ==
    IF text = <<>> THEN 0
    ELSE 10 * DigitsValue(SubSeq(text, 1, Len(text) - 1)) + DigitValue(text[Len(text)])

\* A float: its whole part, and the digits of its fraction up to the last
\* one that is not zero.
Float(units, frac) == [units |-> units, frac |-> frac]

FloatOf(text) ==
    LET dots == {j \in 1..Len(text) : text[j] = "."}
        d == IF dots = {} THEN Len(text) + 1 ELSE MinOf(dots)
        fr == SubSeq(text, d + 1, Len(text))
        nonzero == {j \in 1..Len(fr) : fr[j] # "0"}
    IN  Float(DigitsValue(SubSeq(text, 1, d - 1)),
              IF nonzero = {} THEN <<>> ELSE SubSeq(fr, 1, MaxOf(nonzero)))

\* diagnosis = "<undetermined>": characters of ordinary text, which the texts
\* tried here do not spell.
DiagnosisUnknownText == <<"u">>

\* confidence = 0.5
DefaultConfidence == Float(0, <<"5">>)

\* Variant: the ValueError of float() is not caught.
OnValueErrorRaise == [raised |-> TRUE, confidence |-> DefaultConfidence]

\* except ValueError: pass
OnValueError == [raised |-> FALSE, confidence |-> DefaultConfidence]

ParseConfidence(text) ==
    LET m == Search(text, ConfidenceLabel, DigitsAndDot)
    IN  IF ~m.found THEN [raised |-> FALSE, confidence |-> DefaultConfidence]
        ELSE IF ValidFloat(m.group)
        THEN [raised |-> FALSE, confidence |-> FloatOf(m.group)]
        ELSE OnValueError

ParseDiagnosis(text) ==
    LET m == Search(text, DiagnosisLabel, NotNewline)
    IN  IF m.found THEN Strip(m.group) ELSE DiagnosisUnknownText

\* Variant: the reasoning pattern without re.DOTALL.
ReasoningClassLine == NotNewline

ReasoningClass == AnyChar

ParseReasoning(text) ==
    LET m == Search(text, ReasoningLabel, ReasoningClass)
    IN  IF m.found THEN Strip(m.group) ELSE text

ParseOpinionText(specialist, text) ==
    IF ParseConfidence(text).raised
    THEN [raised |-> TRUE, opinion |-> <<>>]
    ELSE [raised |-> FALSE,
          opinion |-> [specialist |-> specialist,
                       diagnosis |-> ParseDiagnosis(text),
                       confidence |-> ParseConfidence(text).confidence,
                       reasoning |-> ParseReasoning(text)]]

NoOpinion == [raised |-> FALSE, opinion |-> <<>>]

(* A response written in the format the Stage-1 prompt asks for: the three
   labelled fields in order, each on a line of its own, with text before and
   after them. *)

\* The decimal text of a float: whole part, dot, fraction ("0" when empty).
FormatConfidence(value) ==
    <<IF value.units = 1 THEN "1" ELSE "0">> \o <<".">>
        \o (IF value.frac = <<>> THEN <<"0">> ELSE value.frac)

ComposeResponse(f) ==
    f.prefix
        \o <<DiagnosisLabel>> \o f.gap \o f.label \o f.sep
        \o <<ConfidenceLabel>> \o f.gap \o FormatConfidence(f.confidence) \o f.sep
        \o <<ReasoningLabel>> \o f.gap \o f.rationale
        \o f.suffix

NoFields == [composed |-> FALSE]

-----------------------------------------------------------------------------
(* Initial states *)

\* __init__, with the two public limits set by the caller.
Init ==
    /\ pc = "select"
    /\ selected_specialists = <<>>
    /\ specialist_groups = <<>>
    /\ current_round = 0
    /\ max_rounds \in 0..MaxRounds
    /\ stagnation_threshold \in 1..MaxThreshold
    /\ last_opinions = <<>>
    /\ stagnation_count = 0
    /\ active_opinions = <<>>
    /\ opinions = <<>>
    /\ rebuttals = <<>>
    /\ judgment = <<>>
    /\ consensus_reached = FALSE
    /\ cycles = 0
    /\ oracle_calls = 0
    /\ exit_reason = "none"
    /\ result = NoResult
    /\ probe_sigs = <<>>
    /\ probe_ret = FALSE
    /\ response_text = <<>>
    /\ fields = NoFields
    /\ parsed = NoOpinion

-----------------------------------------------------------------------------
(* _start_diagnosis_debate, steps 1 and 2 *)

\* An exception leaves _start_diagnosis_debate: nothing is presented.
Abort(why) == pc' = "aborted" /\ exit_reason' = why

\* The two tallies are instrumentation; they saturate above every value a run
\* of the engine reaches.
CycleCap == MaxRounds + 1

CallCap == 8 * MaxRounds + 2

Tally(n, k, cap) == IF n + k > cap THEN cap ELSE n + k

SelectSpecialists ==
    /\ pc = "select"
    /\ oracle_calls' = Tally(oracle_calls, 1, CallCap)
    /\ \E ok \in BOOLEAN :
        IF ok
        THEN \E response \in SelectionResponses :
                /\ selected_specialists' = ParseSelection(selected_specialists, response)
                /\ pc' = "form"
                /\ UNCHANGED exit_reason
        ELSE /\ Abort("oracle_error")
             /\ UNCHANGED selected_specialists
    /\ UNCHANGED <<specialist_groups, current_round, max_rounds, stagnation_threshold,
                   last_opinions, stagnation_count, active_opinions, opinions,
                   rebuttals, judgment, consensus_reached, cycles,
                   result, probe_sigs, probe_ret>>
    /\ UNCHANGED parser_vars

FormCircularGroups ==
    /\ pc = "form"
    /\ LET formed == FormGroups(specialist_groups, selected_specialists) IN
        /\ specialist_groups' = formed.groups
        /\ IF formed.raised
           THEN Abort("index_error")
           ELSE pc' = "loop" /\ UNCHANGED exit_reason
    /\ UNCHANGED <<selected_specialists, current_round, max_rounds,
                   stagnation_threshold, last_opinions, stagnation_count,
                   active_opinions, opinions, rebuttals, judgment, consensus_reached,
                   cycles, oracle_calls, result, probe_sigs, probe_ret>>
    /\ UNCHANGED parser_vars

-----------------------------------------------------------------------------
(* _conduct_debate *)

\* Variant: the loop test admits one round too many.
WhileConditionInclusive(round, limit) == round <= limit

WhileCondition(round, limit) == round < limit

\* Variant: the round counter is not advanced.
RoundIncrementNone(round) == round

\* Variant: the round counter is advanced by two.
RoundIncrementTwo(round) == round + 2

RoundIncrement(round) == round + 1

\* Variant: the groups are formed again at the start of every iteration.
WhileTestFormingGroups ==
    /\ pc = "loop"
    /\ IF WhileCondition(current_round, max_rounds)
       THEN /\ pc' = "round" /\ UNCHANGED exit_reason
            /\ specialist_groups'
                    = FormGroups(specialist_groups, selected_specialists).groups
       ELSE /\ pc' = "present" /\ exit_reason' = "while"
            /\ UNCHANGED specialist_groups
    /\ UNCHANGED <<selected_specialists, current_round, max_rounds,
                   stagnation_threshold, last_opinions, stagnation_count,
                   active_opinions, opinions, rebuttals, judgment, consensus_reached,
                   cycles, oracle_calls, result, probe_sigs, probe_ret>>
    /\ UNCHANGED parser_vars

\* while self.current_round < self.max_rounds
WhileTest ==
    /\ pc = "loop"
    /\ IF WhileCondition(current_round, max_rounds)
       THEN pc' = "round" /\ UNCHANGED exit_reason
       ELSE pc' = "present" /\ exit_reason' = "while"
    /\ UNCHANGED <<selected_specialists, specialist_groups, current_round, max_rounds,
                   stagnation_threshold, last_opinions, stagnation_count,
                   active_opinions, opinions, rebuttals, judgment, consensus_reached,
                   cycles, oracle_calls, result, probe_sigs, probe_ret>>
    /\ UNCHANGED parser_vars

\* current_round += 1; if _check_stagnation(): _handle_stagnation();
\* if _should_terminate(): break
RoundStart ==
    /\ pc = "round"
    /\ \E ok \in BOOLEAN :
        LET round == RoundIncrement(current_round)
            chk == CheckStagnation(active_opinions, last_opinions,
                                   stagnation_count, stagnation_threshold)
            hs == HandleStagnation(active_opinions, round, max_rounds,
                                   chk.stagnation_count, ok)
        IN  /\ last_opinions' = chk.last_opinions
            /\ IF chk.ret
               THEN /\ current_round' = hs.current_round
                    /\ active_opinions' = hs.active_opinions
                    /\ stagnation_count' = hs.stagnation_count
                    /\ oracle_calls' = Tally(oracle_calls, hs.calls, CallCap)
                    /\ IF hs.raised
                       THEN Abort("oracle_error")
                       ELSE IF ShouldTerminate(hs.current_round, max_rounds)
                       THEN pc' = "present" /\ exit_reason' = "should_terminate"
                       ELSE pc' = "cycle" /\ UNCHANGED exit_reason
               ELSE /\ current_round' = round
                    /\ stagnation_count' = chk.stagnation_count
                    /\ pc' = "cycle"
                    /\ UNCHANGED <<active_opinions, oracle_calls, exit_reason>>
    /\ UNCHANGED <<selected_specialists, specialist_groups, max_rounds,
                   stagnation_threshold, opinions, rebuttals, judgment,
                   consensus_reached, cycles, result, probe_sigs, probe_ret>>
    /\ UNCHANGED parser_vars

\* Stage 1, _gather_opinions: one call per group, in group order; returned is
\* the number of calls that returned before one raised.
GatherOpinions ==
    /\ pc = "cycle"
    /\ cycles' = Tally(cycles, 1, CycleCap)
    /\ LET n == Len(specialist_groups) IN
       \E returned \in 0..n :
        IF returned = n
        THEN \E responses \in [1..n -> Stage1Responses] :
                /\ opinions' = [i \in 1..n |->
                        ParseOpinionResponse(Voice(specialist_groups[i]), responses[i])]
                /\ oracle_calls' = Tally(oracle_calls, n, CallCap)
                /\ pc' = "referee"
                /\ UNCHANGED exit_reason
        ELSE /\ oracle_calls' = Tally(oracle_calls, returned + 1, CallCap)
             /\ Abort("oracle_error")
             /\ UNCHANGED opinions
    /\ UNCHANGED <<selected_specialists, specialist_groups, current_round, max_rounds,
                   stagnation_threshold, last_opinions, stagnation_count,
                   active_opinions, rebuttals, judgment, consensus_reached,
                   result, probe_sigs, probe_ret>>
    /\ UNCHANGED parser_vars

\* Stage 2, _referee_check: one call; the feedback is advisory text.
RefereeCheck ==
    /\ pc = "referee"
    /\ oracle_calls' = Tally(oracle_calls, 1, CallCap)
    /\ \E ok \in BOOLEAN :
        IF ok THEN pc' = "cross" /\ UNCHANGED exit_reason ELSE Abort("oracle_error")
    /\ UNCHANGED <<selected_specialists, specialist_groups, current_round, max_rounds,
                   stagnation_threshold, last_opinions, stagnation_count,
                   active_opinions, opinions, rebuttals, judgment, consensus_reached,
                   cycles, result, probe_sigs, probe_ret>>
    /\ UNCHANGED parser_vars

\* Stages 3-4, _cross_debate: one call per opinion that has other opinions.
CrossDebate ==
    /\ pc = "cross"
    /\ LET todo == Rebutted(opinions) IN
       \E returned \in 0..Len(todo) :
        IF returned = Len(todo)
        THEN /\ rebuttals' = todo
             /\ oracle_calls' = Tally(oracle_calls, Len(todo), CallCap)
             /\ pc' = "final"
             /\ UNCHANGED exit_reason
        ELSE /\ oracle_calls' = Tally(oracle_calls, returned + 1, CallCap)
             /\ Abort("oracle_error")
             /\ UNCHANGED rebuttals
    /\ UNCHANGED <<selected_specialists, specialist_groups, current_round, max_rounds,
                   stagnation_threshold, last_opinions, stagnation_count,
                   active_opinions, opinions, judgment, consensus_reached, cycles,
                   result, probe_sigs, probe_ret>>
    /\ UNCHANGED parser_vars

\* Stage 5, _final_judgment, and the end of _run_debate_cycle:
\* self.active_opinions = final_opinions; return consensus
FinalJudgment ==
    /\ pc = "final"
    /\ oracle_calls' = Tally(oracle_calls, 1, CallCap)
    /\ \E ok \in BOOLEAN :
        IF ok
        THEN \E text \in Judgments :
                /\ judgment' = text
                /\ consensus_reached' = ConsensusIn(text)
                /\ active_opinions' = FinalOpinions(active_opinions, opinions)
                /\ pc' = "after"
                /\ UNCHANGED exit_reason
        ELSE /\ Abort("oracle_error")
             /\ UNCHANGED <<judgment, consensus_reached, active_opinions>>
    /\ UNCHANGED <<selected_specialists, specialist_groups, current_round, max_rounds,
                   stagnation_threshold, last_opinions, stagnation_count, opinions,
                   rebuttals, cycles, result, probe_sigs, probe_ret>>
    /\ UNCHANGED parser_vars

MaxRoundsReached(round, limit) == round >= limit

\* if consensus_reached: break; if current_round >= max_rounds: break.
\* The locals of an iteration that is left by neither break are dead at the
\* next while test.
AfterCycle ==
    /\ pc = "after"
    /\ IF consensus_reached
       THEN /\ pc' = "present" /\ exit_reason' = "consensus"
            /\ UNCHANGED <<opinions, rebuttals, judgment>>
       ELSE IF MaxRoundsReached(current_round, max_rounds)
       THEN /\ pc' = "present" /\ exit_reason' = "max_rounds"
            /\ UNCHANGED <<opinions, rebuttals, judgment>>
       ELSE /\ pc' = "loop" /\ UNCHANGED exit_reason
            /\ opinions' = <<>> /\ rebuttals' = <<>> /\ judgment' = <<>>
    /\ UNCHANGED <<selected_specialists, specialist_groups, current_round, max_rounds,
                   stagnation_threshold, last_opinions, stagnation_count,
                   active_opinions, consensus_reached, cycles, oracle_calls, result,
                   probe_sigs, probe_ret>>
    /\ UNCHANGED parser_vars

\* _present_diagnosis
Present ==
    /\ pc = "present"
    /\ result' = PresentDiagnosis(active_opinions)
    /\ pc' = "done"
    /\ UNCHANGED <<selected_specialists, specialist_groups, current_round, max_rounds,
                   stagnation_threshold, last_opinions, stagnation_count,
                   active_opinions, opinions, rebuttals, judgment, consensus_reached,
                   cycles, oracle_calls, exit_reason, probe_sigs, probe_ret>>
    /\ UNCHANGED parser_vars

ConductDebate ==
    \/ WhileTest
    \/ RoundStart
    \/ GatherOpinions
    \/ RefereeCheck
    \/ CrossDebate
    \/ FinalJudgment
    \/ AfterCycle

Next ==
    \/ SelectSpecialists
    \/ FormCircularGroups
    \/ ConductDebate
    \/ Present

Spec == Init /\ [][Next]_vars

-----------------------------------------------------------------------------
(* _conduct_debate and _present_diagnosis driven on a session whose public
   attribute active_opinions the caller has set: groups formed from a given
   selection, any opinion list of up to MaxSeed opinions in place. *)

SeedLabels == {1, DiagnosisUnknown, ThirdPerspective}

SeedVoice == <<"A", "B">>

SeedOpinions ==
    {[i \in 1..Len(s) |-> Opinion(SeedVoice, s[i])] : s \in SeqsUpTo(SeedLabels, MaxSeed)}

SeededSelections == {<<"A">>, <<"A", "B">>}

InitSeeded ==
    /\ pc = "loop"
    /\ selected_specialists \in SeededSelections
    /\ specialist_groups = FormGroups(<<>>, selected_specialists).groups
    /\ current_round = 0
    /\ max_rounds \in 0..MaxRounds
    /\ stagnation_threshold \in 1..MaxThreshold
    /\ last_opinions = <<>>
    /\ stagnation_count = 0
    /\ active_opinions \in SeedOpinions
    /\ opinions = <<>>
    /\ rebuttals = <<>>
    /\ judgment = <<>>
    /\ consensus_reached = FALSE
    /\ cycles = 0
    /\ oracle_calls = 0
    /\ exit_reason = "none"
    /\ result = NoResult
    /\ probe_sigs = <<>>
    /\ probe_ret = FALSE
    /\ response_text = <<>>
    /\ fields = NoFields
    /\ parsed = NoOpinion

NextSeeded ==
    \/ ConductDebate
    \/ Present

SpecSeeded == InitSeeded /\ [][NextSeeded]_vars

\* Once _conduct_debate is called the loop keeps running: every enabled step
\* of it is eventually taken.
FairSpecSeeded == SpecSeeded /\ WF_vars(NextSeeded)

-----------------------------------------------------------------------------
(* _check_stagnation driven directly: a caller puts an opinion list in place
   and calls the check, up to MaxChecks times; probe_sigs logs the signature
   each check saw and probe_ret what the last check returned. *)

ProbeLabels == {1, DiagnosisUnknown}

ProbeOpinions ==
    {[i \in 1..Len(s) |-> Opinion(SeedVoice, s[i])] : s \in SeqsUpTo(ProbeLabels, 2)}

InitDetector ==
    /\ pc = "probe"
    /\ selected_specialists = <<>>
    /\ specialist_groups = <<>>
    /\ current_round = 0
    /\ max_rounds = MaxRounds
    /\ stagnation_threshold \in 1..MaxThreshold
    /\ last_opinions = <<>>
    /\ stagnation_count = 0
    /\ active_opinions = <<>>
    /\ opinions = <<>>
    /\ rebuttals = <<>>
    /\ judgment = <<>>
    /\ consensus_reached = FALSE
    /\ cycles = 0
    /\ oracle_calls = 0
    /\ exit_reason = "none"
    /\ result = NoResult
    /\ probe_sigs = <<>>
    /\ probe_ret = FALSE
    /\ response_text = <<>>
    /\ fields = NoFields
    /\ parsed = NoOpinion

ProbeAssign ==
    /\ pc = "probe"
    /\ \E ops \in ProbeOpinions : active_opinions' = ops
    /\ UNCHANGED <<pc, selected_specialists, specialist_groups, current_round,
                   max_rounds, stagnation_threshold, last_opinions, stagnation_count,
                   opinions, rebuttals, judgment, consensus_reached, cycles,
                   oracle_calls, exit_reason, result, probe_sigs, probe_ret>>
    /\ UNCHANGED parser_vars

ProbeCheck ==
    /\ pc = "probe"
    /\ Len(probe_sigs) < MaxChecks
    /\ LET chk == CheckStagnation(active_opinions, last_opinions,
                                  stagnation_count, stagnation_threshold)
       IN  /\ last_opinions' = chk.last_opinions
           /\ stagnation_count' = chk.stagnation_count
           /\ probe_ret' = chk.ret
    /\ probe_sigs' = Append(probe_sigs, OpinionsSignature(active_opinions))
    /\ UNCHANGED <<pc, selected_specialists, specialist_groups, current_round,
                   max_rounds, stagnation_threshold, active_opinions, opinions,
                   rebuttals, judgment, consensus_reached, cycles, oracle_calls,
                   exit_reason, result>>
    /\ UNCHANGED parser_vars

NextDetector ==
    \/ ProbeAssign
    \/ ProbeCheck

SpecDetector == InitDetector /\ [][NextDetector]_vars

-----------------------------------------------------------------------------
(* _parse_opinion_response driven directly: on every text of up to MaxText
   characters, and on responses written from three field values in the
   format of the Stage-1 prompt. *)

FieldLabels == { <<"a">>, <<"a", "1">>, <<"a", "s", "a">> }

FieldConfidences ==
    { Float(0, <<>>), Float(1, <<>>), Float(0, <<"1">>),
      Float(0, <<"0", "1">>), Float(1, <<"1">>) }

FieldRationales ==
    { <<"a">>, <<"a", "n", "a">>, <<"a", "s", DiagnosisLabel, "a">>, <<"1", ".">> }

TextsBefore ==
    { <<>>, <<"n">>, <<"a", "s">>, <<"a", "n">>, <<DiagnosisLabel, "a", "n">> }

TextsAfter ==
    { <<>>, <<"s">>, <<"n", "n">>, <<"n", "a">>, <<"s", "a">> }

FieldGaps == { <<>>, <<"s">> }

FieldSeparators == { <<"n">>, <<"s", "n">> }

FieldSets ==
    [composed : {TRUE}, label : FieldLabels, confidence : FieldConfidences,
     rationale : FieldRationales, prefix : TextsBefore, suffix : TextsAfter,
     gap : FieldGaps, sep : FieldSeparators]

InitParser ==
    /\ pc = "parse"
    /\ selected_specialists = <<>>
    /\ specialist_groups = <<>>
    /\ current_round = 0
    /\ max_rounds = MaxRounds
    /\ stagnation_threshold = MaxThreshold
    /\ last_opinions = <<>>
    /\ stagnation_count = 0
    /\ active_opinions = <<>>
    /\ opinions = <<>>
    /\ rebuttals = <<>>
    /\ judgment = <<>>
    /\ consensus_reached = FALSE
    /\ cycles = 0
    /\ oracle_calls = 0
    /\ exit_reason = "none"
    /\ result = NoResult
    /\ probe_sigs = <<>>
    /\ probe_ret = FALSE
    /\ \/ fields = NoFields /\ response_text \in Texts
       \/ fields \in FieldSets /\ response_text = ComposeResponse(fields)
    /\ parsed = NoOpinion

\* opinion = self._parse_opinion_response(f"{spec_a}+{spec_b}", response)
ParseOpinion ==
    /\ pc = "parse"
    /\ parsed' = ParseOpinionText(SeedVoice, response_text)
    /\ pc' = IF parsed'.raised THEN "aborted" ELSE "parsed"
    /\ UNCHANGED <<selected_specialists, specialist_groups, current_round,
                   max_rounds, stagnation_threshold, last_opinions, stagnation_count,
                   active_opinions, opinions, rebuttals, judgment, consensus_reached,
                   cycles, oracle_calls, exit_reason, result, probe_sigs, probe_ret,
                   response_text, fields>>

NextParser == ParseOpinion

SpecParser == InitParser /\ [][NextParser]_vars

-----------------------------------------------------------------------------
(* Shorthands of the properties *)

Terminated == pc \in {"done", "aborted"}

LoopLeft == pc \in {"present", "done"}

\* The judgment texts of Judgments that hold the marker, listed by hand.
MarkedJudgments == { <<"h", "d">>, <<"x", "h", "d", "x">> }

IsInjective(seq) == \A i, j \in 1..Len(seq) : i # j => seq[i] # seq[j]

Last(seq) == seq[Len(seq)]

\* The stagnation check of the coming round will signal: the signature in
\* place repeats the last recorded one and this repeat reaches the threshold.
SignalDue ==
    /\ active_opinions # <<>>
    /\ last_opinions # <<>>
    /\ OpinionsSignature(active_opinions) = Last(last_opinions)
    /\ stagnation_count + 1 >= stagnation_threshold

-----------------------------------------------------------------------------
(* C1: current_round never decreases and never exceeds max_rounds, and the
   number of debate cycles run is at most max_rounds, whatever the verdicts
   and the stagnation outcomes. *)
C1_RoundsBounded ==
    /\ [](current_round <= max_rounds /\ cycles <= max_rounds)
    /\ [][current_round' >= current_round]_vars

\* A run cut short by the stagnation intervention after at least one cycle.
C1_Witness ==
    /\ pc = "done"
    /\ exit_reason = "should_terminate"
    /\ current_round = max_rounds
    /\ cycles >= 1
    /\ cycles < max_rounds - 1

(* C2: the round loop always terminates, whatever the verdicts and the
   opinion signatures: a terminal state is reached, every round entered
   advances current_round, and once current_round equals max_rounds no
   further round is entered. *)
C2_LoopTerminates ==
    /\ <>Terminated
    /\ [][pc = "round" => current_round' > current_round]_vars
    /\ [][current_round = max_rounds /\ pc \in {"loop", "after"} => pc' = "present"]_vars

\* All max_rounds rounds ran without the marker ever appearing.
C2_Witness ==
    /\ pc = "done"
    /\ exit_reason = "max_rounds"
    /\ max_rounds = MaxRounds
    /\ judgment \notin MarkedJudgments

(* C3: consensus is declared exactly when the Stage 5 response holds the
   marker; the loop is then left in that same round; and once the loop is
   left no further oracle call is issued. *)
C3_ConsensusIffMarker ==
    /\ [](pc = "after" => (consensus_reached <=> judgment \in MarkedJudgments))
    /\ [](LoopLeft => (exit_reason = "consensus" <=> judgment \in MarkedJudgments))
    /\ [][pc = "after" /\ consensus_reached
            => pc' = "present" /\ current_round' = current_round /\ cycles' = cycles]_vars
    /\ [][LoopLeft => oracle_calls' = oracle_calls]_vars

\* Consensus on a marker that is not at the start of the verdict, before the
\* last round.
C3_Witness ==
    /\ pc = "done"
    /\ exit_reason = "consensus"
    /\ judgment = <<"x", "h", "d", "x">>
    /\ current_round < max_rounds

(* C4: with three specialists in a ring, if the three groups give the same
   Stage-1 label and the verdict of that round holds the marker, the session
   ends by consensus with a single opinion carrying that label. *)
C4_UnanimousConsensusSingleResult ==
    ( /\ pc = "done"
      /\ exit_reason = "consensus"
      /\ Len(selected_specialists) = 3
      /\ IsInjective(selected_specialists)
      /\ \A i \in 1..Len(opinions) : opinions[i].diagnosis = opinions[1].diagnosis )
    => ( /\ result.kind = "single"
         /\ result.opinions[1].diagnosis = opinions[1].diagnosis )

\* The step of a round in which stagnation is signalled with exactly 2
\* distinct labels active.
C5_TwoLabelsStagnationStep ==
    [][ pc = "round" /\ SignalDue /\ Cardinality(DistinctLabels(active_opinions)) = 2
        => /\ current_round' = max_rounds
           /\ pc' = "present"
           /\ exit_reason' = "should_terminate"
           /\ cycles' = cycles
           /\ oracle_calls' = oracle_calls
           /\ active_opinions' = active_opinions ]_vars

\* What is presented after that step; exactlyTwo: the result holds 2 opinions.
C5_TwoLabelsResultShape(exactlyTwo) ==
    ( /\ pc = "done"
      /\ exit_reason = "should_terminate"
      /\ Cardinality(DistinctLabels(active_opinions)) = 2 )
    => ( /\ result.kind = "parallel"
         /\ result.opinions = active_opinions
         /\ Cardinality(DistinctLabels(result.opinions)) = 2
         /\ exactlyTwo => Len(result.opinions) = 2 )

(* C5 as stated: when stagnation is signalled with exactly 2 distinct labels
   active, current_round becomes max_rounds, the loop is left without running
   that round's cycle, and the result is the 2 opinions in parallel. *)
C5_TwoOpinionsParallel ==
    C5_TwoLabelsStagnationStep /\ []C5_TwoLabelsResultShape(TRUE)

(* C5 as amended: when stagnation is signalled with exactly 2 distinct labels
   active, current_round becomes max_rounds, the loop is left without running
   that round's cycle, and the result is every active opinion, two or more of
   them carrying the 2 distinct labels, in parallel. *)
C5_AllOpinionsParallel ==
    C5_TwoLabelsStagnationStep /\ []C5_TwoLabelsResultShape(FALSE)

\* Stagnation with two labels, signalled before the last round, three
\* opinions presented.
C5_Witness ==
    /\ pc = "done"
    /\ exit_reason = "should_terminate"
    /\ Cardinality(DistinctLabels(active_opinions)) = 2
    /\ Len(result.opinions) = 3
    /\ cycles >= 1
    /\ cycles < max_rounds - 1

(* C6: if the marker never appears and no stagnation intervention forces
   termination, exactly max_rounds cycles run, the loop halts with
   current_round = max_rounds, and the result is the opinion set active then. *)
C6_ExhaustionRunsAllRounds ==
    ( /\ pc = "done"
      /\ judgment \notin MarkedJudgments
      /\ ~(exit_reason = "should_terminate"
           /\ Cardinality(DistinctLabels(active_opinions)) = 2) )
    => ( /\ cycles = max_rounds
         /\ current_round = max_rounds
         /\ result = PresentDiagnosis(active_opinions) )

(* C7: a session that starts with max_rounds >= 1 ends with a single opinion
   or a parallel set: the opinion set presented is never empty. *)
C7_ResultNeverEmpty ==
    (pc = "done" /\ max_rounds >= 1) => result.kind \in {"single", "parallel"}

(* C8: a failed oracle call is never fatal: the session does not end on the
   call's exception. *)
C8_OracleFailureNotFatal ==
    ~(pc = "aborted" /\ exit_reason = "oracle_error")

(* C9: for n >= 1 distinct selected specialists S, group formation on a fresh
   session gives exactly n groups, group i = (S[i], S[(i+1) mod n]); each
   specialist is first in exactly one group and second in exactly one; n = 1
   gives the one self-pair. *)
C9_CircularGroups ==
    ( /\ pc \notin {"select", "form"}
      /\ Len(selected_specialists) >= 1
      /\ IsInjective(selected_specialists) )
    => LET S == selected_specialists
           G == specialist_groups
           n == Len(S)
       IN  /\ Len(G) = n
           /\ \A i \in 1..n : G[i] = <<S[i], S[IF i = n THEN 1 ELSE i + 1]>>
           /\ \A i \in 1..n :
                /\ Cardinality({k \in 1..Len(G) : G[k][1] = S[i]}) = 1
                /\ Cardinality({k \in 1..Len(G) : G[k][2] = S[i]}) = 1
           /\ n = 1 => G = << <<S[1], S[1]>> >>

\* A ring of three formed and handed to the loop.
C9_Witness ==
    /\ pc = "loop"
    /\ current_round = 0
    /\ selected_specialists = <<"C", "A", "B">>

-----------------------------------------------------------------------------
\* The number of checks at the end of the log that each saw the signature of
\* the check before it.
TrailingRepeats(log) ==
    IF Len(log) <= 1 THEN 0
    ELSE CHOOSE k \in 0..(Len(log) - 1) :
            /\ \A j \in (Len(log) - k + 1)..Len(log) : log[j] = log[j - 1]
            /\ (k < Len(log) - 1 => log[Len(log) - k] # log[Len(log) - k - 1])

(* C10: over checks of non-empty opinion sets, the check returns true on the
   stagnation_threshold-th consecutive repeat of the signature and not
   earlier, stagnation_count being the threshold exactly then, and
   stagnation_count is 0 right after a check that sees a different signature. *)
C10_ThresholdthRepeat ==
    ( /\ pc = "probe"
      /\ probe_sigs # <<>>
      /\ \A i \in 1..Len(probe_sigs) : probe_sigs[i] # <<>> )
    => ( /\ probe_ret <=> TrailingRepeats(probe_sigs) >= stagnation_threshold
         /\ TrailingRepeats(probe_sigs) = stagnation_threshold
                => stagnation_count = stagnation_threshold
         /\ ( Len(probe_sigs) >= 2
              /\ probe_sigs[Len(probe_sigs)] # probe_sigs[Len(probe_sigs) - 1] )
                => stagnation_count = 0 )

\* A changed signature, then the threshold reached by repeats of the new one.
C10_Witness ==
    /\ pc = "probe"
    /\ stagnation_threshold = 2
    /\ Len(probe_sigs) = 4
    /\ probe_sigs[1] # probe_sigs[2]
    /\ TrailingRepeats(probe_sigs) = 2
    /\ probe_ret

-----------------------------------------------------------------------------
(* C11: when stagnation is signalled with 3 or more distinct labels active
   and the call of the injection returns, exactly one third-perspective
   opinion is appended to active_opinions, the opinions already there keeping
   their content and order, stagnation_count becomes 0, current_round is the
   round just entered, and the cycle of that round runs if rounds remain. *)
C11_ThirdPerspectiveInjected ==
    [][ ( /\ pc = "round"
          /\ SignalDue
          /\ Cardinality(DistinctLabels(active_opinions)) >= 3
          /\ pc' # "aborted" )
        => /\ Len(active_opinions') = Len(active_opinions) + 1
           /\ SubSeq(active_opinions', 1, Len(active_opinions)) = active_opinions
           /\ Last(active_opinions').diagnosis = ThirdPerspective
           /\ Last(active_opinions').specialist = IndependentSpecialist
           /\ stagnation_count' = 0
           /\ current_round' = current_round + 1
           /\ oracle_calls' = oracle_calls + 1
           /\ (current_round' < max_rounds => pc' = "cycle")
           /\ (current_round' >= max_rounds => pc' = "present") ]_vars

\* An injection before the last round: the cycle of that round is about to
\* run on the seeded opinions plus the injected one.
C11_Witness ==
    /\ pc = "cycle"
    /\ current_round < max_rounds
    /\ stagnation_count = 0
    /\ Len(active_opinions) >= 4
    /\ Last(active_opinions).specialist = IndependentSpecialist
    /\ Cardinality(DistinctLabels(SubSeq(active_opinions, 1, Len(active_opinions) - 1))) >= 3

(* C12: when stagnation is signalled with exactly 1 distinct label active,
   the intervention changes nothing: after the step current_round is the
   round just entered, stagnation_count is what the check left, and
   active_opinions and the signature history are as before; no oracle call
   is made and no exception raised; and the round is not forced to
   max_rounds, so the cycle of that round runs unless the round entered is
   already the last one. *)
C12_OneLabelNoChange ==
    [][ ( /\ pc = "round"
          /\ SignalDue
          /\ Cardinality(DistinctLabels(active_opinions)) = 1 )
        => /\ current_round' = current_round + 1
           /\ stagnation_count' = stagnation_count + 1
           /\ active_opinions' = active_opinions
           /\ last_opinions' = last_opinions
           /\ oracle_calls' = oracle_calls
           /\ pc' # "aborted"
           /\ (current_round + 1 < max_rounds => pc' = "cycle") ]_vars

\* The signal was raised with one label in two rounds in a row, and the cycle
\* of the second of them is about to run.
C12_Witness ==
    /\ pc = "cycle"
    /\ Cardinality(DistinctLabels(active_opinions)) = 1
    /\ stagnation_count > stagnation_threshold
    /\ current_round < max_rounds
    /\ oracle_calls > 0

(* C13: if the selection response holds no list that can be parsed,
   selected_specialists is set to the two-role default and group formation
   goes ahead: group formation never finds the selection empty and the
   session never ends on its IndexError. *)
C13_UnparsedSelectionFallsBack ==
    /\ pc = "form" => Len(selected_specialists) >= 1
    /\ ~(pc = "aborted" /\ exit_reason = "index_error")

-----------------------------------------------------------------------------
Occurs(c, text) == \E j \in 1..Len(text) : text[j] = c

\* The text after the first occurrence of c, without its leading whitespace.
AfterFirst(c, text) ==
    LET i == MinOf({j \in 1..Len(text) : text[j] = c})
        rest == SubSeq(text, i + 1, Len(text))
        solid == {j \in 1..Len(rest) : rest[j] \notin Whitespace}
    IN  IF solid = {} THEN <<>> ELSE SubSeq(rest, MinOf(solid), Len(rest))

\* The confidence label occurs once and what follows it is a text of digits
\* and dots that is no number: no digit in it, or two dots.
BadNumber(text) ==
    /\ Cardinality({j \in 1..Len(text) : text[j] = ConfidenceLabel}) = 1
    /\ LET rest == AfterFirst(ConfidenceLabel, text)
           run == SubSeq(rest, 1, RunEnd(rest, 1, DigitsAndDot))
       IN  /\ run # <<>>
           /\ \/ \A j \in 1..Len(run) : run[j] = "."
              \/ Cardinality({j \in 1..Len(run) : run[j] = "."}) >= 2

(* C14: on every response text the parser returns an opinion and does not
   raise; a field whose label is absent from the text takes its fallback:
   the diagnosis the undetermined default, the confidence 0.5 (also when the
   text matched after the confidence label is not a number), the reasoning
   the whole response. *)
C14_ParserTotalWithFallbacks ==
    /\ pc # "aborted"
    /\ pc = "parsed" =>
        /\ ~parsed.raised
        /\ DOMAIN parsed.opinion = {"specialist", "diagnosis", "confidence", "reasoning"}
        /\ parsed.opinion.specialist = SeedVoice
        /\ ~Occurs(DiagnosisLabel, response_text)
              => parsed.opinion.diagnosis = DiagnosisUnknownText
        /\ ~Occurs(ConfidenceLabel, response_text)
              => parsed.opinion.confidence = DefaultConfidence
        /\ BadNumber(response_text)
              => parsed.opinion.confidence = DefaultConfidence
        /\ ~Occurs(ReasoningLabel, response_text)
              => parsed.opinion.reasoning = response_text

\* A response with no diagnosis and no reasoning label, and a confidence
\* label followed by two dots: all three fallbacks at once.
C14_Witness ==
    /\ pc = "parsed"
    /\ response_text = <<ConfidenceLabel, "s", ".", ".">>
    /\ parsed.opinion.diagnosis = DiagnosisUnknownText
    /\ parsed.opinion.confidence = DefaultConfidence
    /\ parsed.opinion.reasoning = response_text

\* The opinion parsed from a written response carries the three values the
\* response was written from.
FieldsRecovered ==
    /\ parsed.opinion.diagnosis = fields.label
    /\ parsed.opinion.confidence = fields.confidence
    /\ parsed.opinion.reasoning = fields.rationale

\* No field label in the text before the fields; only whitespace after them.
NoLabelBefore(f) ==
    \A j \in 1..Len(f.prefix) :
        f.prefix[j] \notin {DiagnosisLabel, ConfidenceLabel, ReasoningLabel}

BlankAfter(f) == \A j \in 1..Len(f.suffix) : f.suffix[j] \in Whitespace

(* C15 as stated: a response holding the three labelled fields, with any
   whitespace and text before and after them, parses to an opinion whose
   diagnosis, confidence and reasoning are exactly the three values. *)
C15_RoundTripAnySurroundings ==
    (pc = "parsed" /\ fields.composed) => FieldsRecovered

(* C15 as amended: a response holding the three labelled fields, each on a
   line of its own, parses to exactly the three values when the text before
   the fields holds none of the three field labels and only whitespace
   follows the reasoning. *)
C15_RoundTripCleanSurroundings ==
    (pc = "parsed" /\ fields.composed /\ NoLabelBefore(fields) /\ BlankAfter(fields))
        => FieldsRecovered

\* A response with text before the fields and blank lines after them, a
\* reasoning of two lines and a confidence whose text ends in a zero.
C15_Witness ==
    /\ pc = "parsed"
    /\ fields.composed
    /\ fields.prefix = <<"a", "n">>
    /\ fields.suffix = <<"n", "n">>
    /\ fields.rationale = <<"a", "n", "a">>
    /\ fields.confidence = Float(1, <<>>)
    /\ fields.sep = <<"s", "n">>
    /\ FieldsRecovered

-----------------------------------------------------------------------------
(* C16: whichever way the loop ends (consensus, stagnation, round limit),
   when two or more opinions with distinct labels are left in
   active_opinions the result is the parallel form and holds every one of
   them in active_opinions order; the single form is produced only when
   exactly one opinion is left. *)
C16_AllSurvivorsParallel ==
    pc = "done" =>
        /\ ( Len(active_opinions) >= 2
             /\ Cardinality(DistinctLabels(active_opinions)) >= 2 )
           => ( /\ result.kind = "parallel"
                /\ result.opinions = active_opinions )
        /\ result.kind = "single" => Len(active_opinions) = 1
        /\ exit_reason \in {"consensus", "should_terminate", "max_rounds", "while"}

\* The loop ended by consensus while three opinions with distinct labels
\* were left.
C16_Witness ==
    /\ pc = "done"
    /\ exit_reason = "consensus"
    /\ Len(active_opinions) = 3
    /\ Cardinality(DistinctLabels(active_opinions)) = 3
    /\ result.kind = "parallel"

(* C17: invalid session parameters are rejected with an error before any
   round runs and before any debate call: a session with max_rounds < 1
   never gets to the round loop or to a presented result, and a session whose
   specialist selection is empty ends on an error with no cycle started. *)
C17_InvalidParametersRejected ==
    /\ max_rounds < 1 => pc \in {"select", "form", "aborted"}
    /\ (pc \notin {"select", "form"} /\ selected_specialists = <<>>)
          => (pc = "aborted" /\ cycles = 0)

(* C18: after a round whose debate cycle ran to completion with at least one
   group, active_opinions is not empty: it holds the opinions of that round's
   Stage 1. *)
C18_ActiveOpinionsAfterCycle ==
    (pc = "after" /\ Len(specialist_groups) >= 1)
        => (active_opinions # <<>> /\ active_opinions = opinions)

(* C19: at every stagnation check, the first one and those on an empty
   active_opinions included, stagnation_count after the check is 0 if the
   signature of active_opinions differs from the one the previous check saw
   (or there was no previous check), and the previous stagnation_count + 1
   if it is the same. *)
C19_CountFollowsSignature ==
    [][ Len(probe_sigs') = Len(probe_sigs) + 1
        => IF /\ probe_sigs # <<>>
              /\ Last(probe_sigs') = Last(probe_sigs)
           THEN stagnation_count' = stagnation_count + 1
           ELSE stagnation_count' = 0 ]_vars

-----------------------------------------------------------------------------
\* current_round changes only in the step that opens a loop iteration.
RoundChangesAtRoundStartOnly ==
    [][pc # "round" => current_round' = current_round]_vars

\* The iteration opened is one in which stagnation is signalled with exactly
\* 2 distinct labels active.
ForcedTerminationDue ==
    SignalDue /\ Cardinality(DistinctLabels(active_opinions)) = 2

(* C20 as stated: current_round grows by exactly 1 in every loop iteration,
   also in one in which the stagnation intervention runs. *)
C20_RoundGrowsByOne ==
    /\ RoundChangesAtRoundStartOnly
    /\ [][pc = "round" => current_round' = current_round + 1]_vars

(* C20 as amended: current_round grows by exactly 1 in every loop iteration,
   except in an iteration in which stagnation is signalled with exactly 2
   distinct labels active: there it is set to max_rounds, which is a growth
   of 1 or more. *)
C20_RoundGrowsByOneUnlessForced ==
    /\ RoundChangesAtRoundStartOnly
    /\ [][ pc = "round"
           => IF ForcedTerminationDue
              THEN current_round' = max_rounds /\ current_round' >= current_round + 1
              ELSE current_round' = current_round + 1 ]_vars

\* A forced termination that moved the counter over at least two rounds
\* never run, the signature having stayed the same since the first check.
C20_Witness ==
    /\ pc = "present"
    /\ exit_reason = "should_terminate"
    /\ current_round = max_rounds
    /\ cycles < max_rounds - 1
    /\ Cardinality(DistinctLabels(active_opinions)) = 2
    /\ Len(last_opinions) = 1

-----------------------------------------------------------------------------
(* C21: in every debate cycle Stage 1 issues exactly one oracle call per
   group and yields exactly one opinion per group in group order, opinion i
   carrying the voice of group i; the Stage 2 referee call is issued only
   once the opinions of all groups are collected. *)
C21_StageOneBarrier ==
    /\ [][ (pc = "cycle" /\ pc' = "referee")
           => /\ oracle_calls' = oracle_calls + Len(specialist_groups)
              /\ Len(opinions') = Len(specialist_groups) ]_vars
    /\ [][ (pc = "cycle" /\ pc' # "referee")
           => /\ pc' = "aborted"
              /\ oracle_calls' <= oracle_calls + Len(specialist_groups)
              /\ opinions' = opinions ]_vars
    /\ [](pc \in {"referee", "cross", "final", "after"}
            => /\ Len(opinions) = Len(specialist_groups)
               /\ \A i \in 1..Len(opinions) :
                    opinions[i].specialist
                        = <<specialist_groups[i][1], specialist_groups[i][2]>>)

\* The second cycle of a ring of three has collected its three opinions and
\* the referee call is next.
C21_Witness ==
    /\ pc = "referee"
    /\ cycles = 2
    /\ specialist_groups = << <<"B", "C">>, <<"C", "A">>, <<"A", "B">> >>
    /\ Len(opinions) = 3
    /\ opinions[2].diagnosis # opinions[3].diagnosis

\* Rebuttal i belongs to opinion i, one for every opinion.
OneRebuttalPerOpinion ==
    /\ Len(rebuttals) = Len(opinions)
    /\ \A i \in 1..Len(rebuttals) : rebuttals[i] = i

\* Some two opinions of the cycle come from different voices.
TwoVoices ==
    \E i, j \in 1..Len(opinions) : opinions[i].specialist # opinions[j].specialist

(* C22 as stated: for every opinion list passed to the cross-debate stage,
   the single opinion of a lone self-paired group and opinions sharing a
   voice id included, the stage produces exactly one rebuttal per opinion,
   rebuttal i belonging to opinion i. *)
C22_OneRebuttalPerOpinion ==
    pc \in {"final", "after"} => OneRebuttalPerOpinion

(* C22 as amended: when at least two of the opinions passed to the
   cross-debate stage come from different voices, the stage makes one call
   per opinion and produces exactly one rebuttal per opinion, rebuttal i
   belonging to opinion i; when all opinions share one voice (a lone
   self-paired group, or groups with the same voice id) it makes no call and
   produces no rebuttal. *)
C22_OneRebuttalPerOpinionOfTwoVoices ==
    /\ [](pc \in {"final", "after"}
            => IF TwoVoices THEN OneRebuttalPerOpinion ELSE rebuttals = <<>>)
    /\ [][ (pc = "cross" /\ pc' = "final")
           => oracle_calls' = oracle_calls + (IF TwoVoices THEN Len(opinions) ELSE 0) ]_vars

\* Three opinions of three voices, two of them with the same diagnosis, each
\* with its rebuttal.
C22_Witness ==
    /\ pc = "final"
    /\ selected_specialists = <<"A", "B", "A">>
    /\ opinions[1].diagnosis = opinions[3].diagnosis
    /\ opinions[1].diagnosis = opinions[2].diagnosis
    /\ rebuttals = <<1, 2, 3>>

-----------------------------------------------------------------------------
(* C23: the Stage 5 verdict does not alter the opinion set: after
   _final_judgment and the assignment that follows it, active_opinions is
   what it was right before the verdict, whether consensus is declared or
   not; no other stage of the cycle touches it either. *)
C23_VerdictKeepsOpinions ==
    /\ [][ (pc = "final" /\ pc' = "after") => active_opinions' = active_opinions ]_vars
    /\ [][ (pc = "final" \/ pc = "cycle" \/ pc = "referee" \/ pc = "cross" \/ pc = "after")
           => active_opinions' = active_opinions ]_vars

\* Consensus declared in a cycle whose Stage 1 gave two opinions, while the
\* three opinions in place before the cycle are still the active ones.
C23_Witness ==
    /\ pc = "after"
    /\ consensus_reached
    /\ Len(opinions) = 2
    /\ Len(active_opinions) = 3
    /\ Cardinality(DistinctLabels(active_opinions)) = 2
    /\ cycles = 2

\* The opinions of active_opinions that a third-perspective injection added.
Injected(ops) ==
    {i \in 1..Len(ops) : ops[i].specialist = IndependentSpecialist}

(* C24: within one session the third-perspective injection happens at most
   once: active_opinions never holds two injected opinions, and once it
   holds one no later round adds an opinion. *)
C24_InjectionAtMostOnce ==
    /\ [](Cardinality(Injected(active_opinions)) <= 1)
    /\ [][ Injected(active_opinions) # {}
           => Len(active_opinions') = Len(active_opinions) ]_vars

-----------------------------------------------------------------------------
(* C25: once the groups are formed, no step of the debate (stagnation check,
   intervention, any of the five stages, the presentation) changes
   specialist_groups or selected_specialists: at the end of the session both
   are what they were right after group formation. *)
C25_GroupsImmutable ==
    [][ (pc # "select" /\ pc # "form")
        => /\ specialist_groups' = specialist_groups
           /\ selected_specialists' = selected_specialists ]_vars

\* A session of a ring of three that ran three cycles and presented its
\* result, the groups being those formed from the selection.
C25_Witness ==
    /\ pc = "done"
    /\ cycles = 3
    /\ selected_specialists = <<"B", "A", "C">>
    /\ specialist_groups = << <<"B", "A">>, <<"A", "C">>, <<"C", "B">> >>

(* C26: after specialist selection completes, whatever the response,
   selected_specialists is a sequence of between 2 and 6 pairwise distinct
   role labels. *)
C26_SelectionTwoToSixDistinct ==
    pc = "form" =>
        /\ Len(selected_specialists) >= 2
        /\ Len(selected_specialists) <= 6
        /\ IsInjective(selected_specialists)

-----------------------------------------------------------------------------
(* C27: whenever a debate cycle starts in a round where stagnation_count is
   at least stagnation_threshold, exactly one distinct diagnosis label is
   active: a signal with 2 labels leaves the loop before the cycle and one
   with 3 or more labels resets stagnation_count to 0 before the cycle. *)
C27_StagnantCycleHasOneLabel ==
    /\ []( (pc = "cycle" /\ stagnation_count >= stagnation_threshold)
            => Cardinality(DistinctLabels(active_opinions)) = 1 )
    /\ [][ (pc = "round" /\ SignalDue /\ pc' = "cycle")
           => \/ Cardinality(DistinctLabels(active_opinions)) = 1
              \/ ( /\ Cardinality(DistinctLabels(active_opinions)) >= 3
                   /\ stagnation_count' = 0 ) ]_vars

\* A cycle about to start on three opinions of one label, the signal having
\* been raised in this round.
C27_Witness ==
    /\ pc = "cycle"
    /\ stagnation_count >= stagnation_threshold
    /\ Len(active_opinions) = 3
    /\ Cardinality(DistinctLabels(active_opinions)) = 1
    /\ stagnation_threshold = 2

-----------------------------------------------------------------------------
(* C28: a stagnation check made while active_opinions is empty reports no
   stagnation and changes nothing: it returns false and leaves
   stagnation_count and last_opinions as they were; the first check that
   sees a non-empty opinion set only records its signature: it returns
   false, leaves stagnation_count as it was and makes last_opinions the list
   of that one signature. *)
C28_EmptyAndFirstChecks ==
    [][ Len(probe_sigs') = Len(probe_sigs) + 1
        => /\ active_opinions = <<>>
                => /\ ~probe_ret'
                   /\ stagnation_count' = stagnation_count
                   /\ last_opinions' = last_opinions
           /\ (active_opinions # <<>> /\ last_opinions = <<>>)
                => /\ ~probe_ret'
                   /\ stagnation_count' = stagnation_count
                   /\ last_opinions' = <<Last(probe_sigs')>> ]_vars

\* A check on an empty list made after the threshold had been reached on a
\* repeated signature: it returned false and the count is still there.
C28_Witness ==
    /\ pc = "probe"
    /\ Len(probe_sigs) >= 3
    /\ Last(probe_sigs) = <<>>
    /\ active_opinions = <<>>
    /\ ~probe_ret
    /\ stagnation_count >= stagnation_threshold
    /\ Len(last_opinions) = 1

(* C29: in every reachable state last_opinions holds no two adjacent equal
   entries: a signature is appended only when it differs from the last one
   recorded, and entries are never removed or rewritten. *)
C29_HistoryHasNoAdjacentRepeats ==
    /\ [](\A i \in 1..(Len(last_opinions) - 1) : last_opinions[i] # last_opinions[i + 1])
    /\ [][ /\ Len(last_opinions') >= Len(last_opinions)
           /\ Len(last_opinions') <= Len(last_opinions) + 1
           /\ SubSeq(last_opinions', 1, Len(last_opinions)) = last_opinions
           /\ (Len(last_opinions') > Len(last_opinions) /\ last_opinions # <<>>)
                => Last(last_opinions') # Last(last_opinions) ]_vars

\* A history of three signatures whose first and third are the same, the
\* last check having seen the third again.
C29_Witness ==
    /\ pc = "probe"
    /\ Len(last_opinions) = 3
    /\ last_opinions[1] = last_opinions[3]
    /\ Len(probe_sigs) = 4
    /\ stagnation_count = 1

====
